---- MODULE Spec2Model ----
(***************************************************************************)
(* Model of src/main.cpp: the LearnOpenGL "Textures" program.  main() is a *)
(* linear setup sequence (window, loader, shader, geometry, texture)       *)
(* followed by the render loop and the shutdown.  The state is main's      *)
(* position, the part of the GLFW / GL / stb_image state the program       *)
(* touches, and `trace`, the sequence of library calls issued so far.      *)
(***************************************************************************)
EXTENDS Integers, Sequences, FiniteSets, TLC

\* ---------------------------------------------------------------- bounds
\* Number of render-loop iterations the model lets the loop start.
MaxFrames == 2
\* Number of framebuffer-resize events the window system sends in a run.
MaxResizes == 2

\* Framebuffer sizes the window system may report on a resize.
ResizeDims == {<<640, 480>>, <<1024, 768>>}

\* Framebuffer pixels per screen coordinate of the display the window is
\* created on: 1, or 2 on a HiDPI ("retina") display.
FbScales == {1, 2}

\* <<width, height, nrChannels>> of the images stbi_load may decode.
ImageShapes == { <<512, 512, 3>>, <<1022, 1023, 3>>, <<2048, 2048, 1>> }

\* ------------------------------------------------------ program constants
SCR_WIDTH == 800
SCR_HEIGHT == 600
\* sizeof(float) and sizeof(unsigned int) on the target ABI
SizeofFloat == 4
SizeofUInt == 4

\* Number of rows of vertices[]
NumVertices == 4

\* float vertices[]: values in units of 0.5f (0.5f = 1, 1.0f = 2, 0.0f = 0)
vertices ==
  <<  1,  1, 0,   2, 0, 0,   2, 2,
      1, -1, 0,   0, 2, 0,   2, 0,
     -1, -1, 0,   0, 0, 2,   0, 0,
     -1,  1, 0,   2, 2, 0,   0, 2 >>

\* The indices written in triangle-strip order: the triangles overlap.
indices_Strip == << 0, 1, 2,
                    1, 2, 3 >>

\* unsigned int indices[]
indices == << 0, 1, 3,
              1, 2, 3 >>

\* 8 * sizeof(float): the stride passed to every glVertexAttribPointer
AttribStride == 8 * SizeofFloat

\* glVertexAttribPointer(0, 3, GL_FLOAT, GL_FALSE, 8*sizeof(float), (void*)0)
PositionAttrib ==
  [size |-> 3, stride |-> AttribStride, offset |-> 0, enabled |-> TRUE]

\* The colour offset given in floats instead of bytes.
ColorAttrib_OffsetInFloats ==
  [size |-> 3, stride |-> AttribStride, offset |-> 3, enabled |-> TRUE]

\* glVertexAttribPointer(1, 3, ..., (void*)(3 * sizeof(float)))
ColorAttrib ==
  [size |-> 3, stride |-> AttribStride, offset |-> 3 * SizeofFloat,
   enabled |-> TRUE]

\* glVertexAttribPointer(2, 2, ..., (void*)(6 * sizeof(float)))
TexCoordAttrib ==
  [size |-> 2, stride |-> AttribStride, offset |-> 6 * SizeofFloat,
   enabled |-> TRUE]

\* A vertex attribute nobody has declared yet.
NoAttrib == [size |-> 0, stride |-> 0, offset |-> 0, enabled |-> FALSE]

\* width, height, nrChannels before stbi_load has written them.
NoImage == <<0, 0, 0>>

\* GL_UNPACK_ALIGNMENT, which the program leaves at its default.
UnpackAlignment == 4

\* Bytes per pixel glTexImage2D reads for GL_RGB, GL_UNSIGNED_BYTE.
RGBComponents == 3

\* Bytes from the start of one row to the start of the next in the buffer
\* glTexImage2D reads: the row rounded up to the unpack alignment.
RowStride(width) ==
  ((RGBComponents * width + UnpackAlignment - 1) \div UnpackAlignment)
    * UnpackAlignment

\* Bytes glTexImage2D(..., GL_RGB, width, height, 0, GL_RGB,
\* GL_UNSIGNED_BYTE, data) reads from data.
BytesRead(width, height) ==
  RowStride(width) * (height - 1) + RGBComponents * width

\* Size of the buffer stbi_load returns for req_comp = 0.
BufferSize(i) == i[1] * i[2] * i[3]

\* The upload reads past the end of the decoded buffer.
ReadsPastBuffer(i) == BytesRead(i[1], i[2]) > BufferSize(i)

\* glDrawElements(GL_TRIANGLES, 6, GL_UNSIGNED_INT, 0): the count argument
DrawCount == 6

\* One library call: its name, the object it names ("" if none), a number.
Call(op, obj, n) == [op |-> op, obj |-> obj, n |-> n, m |-> 0]

\* glViewport(0, 0, width, height) as a library call.
ViewportCall(width, height) ==
  [op |-> "glViewport", obj |-> "", n |-> width, m |-> height]

\* The window system invoking framebuffer_size_callback(window, width,
\* height), as an entry of the trace.
CallbackCall(width, height) ==
  [op |-> "framebuffer_size_callback", obj |-> "", n |-> width,
   m |-> height]

VARIABLES
  pc,           \* main's position
  window,       \* "unset", "NULL" or "win": result of glfwCreateWindow
  fbSize,       \* <<width, height>> of the window's framebuffer, in pixels
  glLoaded,     \* gladLoadGLLoader succeeded
  callbackSet,  \* framebuffer_size_callback is registered
  shouldClose,  \* the window's should-close flag
  escKey,       \* cached state of GLFW_KEY_ESCAPE (TRUE = GLFW_PRESS)
  objs,         \* VAO, VBO, EBO, texture: "none", "live", "deleted"
  bound,        \* current bindings: vao, array, element, tex2d, program
  bufData,      \* contents of VBO and EBO
  attribs,      \* vertex attribute pointers 0..2 of the VAO
  tex,          \* texture object state: parameters, image, mipmaps
  data,         \* stbi buffer: "unset", "null", "valid", "freed"
  img,          \* <<width, height, nrChannels>> written by stbi_load
  viewport,     \* <<x, y, w, h>>
  clock,        \* glfwGetTime, in ticks
  uniformTime,  \* values written to the "time" uniform, in order
  drawn,        \* indices consumed by the last glDrawElements
  out,          \* lines written to std::cout
  ret,          \* <<>> while running, <<status>> once main returned
  frames,       \* render-loop iterations started
  resizes,      \* framebuffer-resize events dispatched
  trace         \* library calls issued so far, in order

vars == << pc, window, fbSize, glLoaded, callbackSet, shouldClose, escKey,
           objs, bound, bufData, attribs, tex, data, img, viewport, clock,
           uniformTime, drawn, out, ret, frames, resizes, trace >>

glfwVars == << window, fbSize, callbackSet, shouldClose, escKey >>
geomVars == << bufData, attribs >>
frameVars == << clock, uniformTime, drawn, frames, resizes >>

Init ==
  /\ pc = "create_window"
  /\ window = "unset"
  /\ fbSize = <<0, 0>>
  /\ glLoaded = FALSE
  /\ callbackSet = FALSE
  /\ shouldClose = FALSE
  /\ escKey = FALSE
  /\ objs = [o \in {"VAO", "VBO", "EBO", "texture"} |-> "none"]
  /\ bound = [vao |-> "", array |-> "", element |-> "", tex2d |-> "",
              program |-> ""]
  /\ bufData = [VBO |-> <<>>, EBO |-> <<>>]
  /\ attribs = [i \in 0..2 |-> NoAttrib]
  /\ tex = [wrapS |-> "", wrapT |-> "", minFilter |-> "", magFilter |-> "",
            image |-> FALSE, mipmaps |-> FALSE]
  /\ data = "unset"
  /\ img = NoImage
  /\ viewport = <<0, 0, 0, 0>>
  /\ clock = 0
  /\ uniformTime = <<>>
  /\ drawn = <<>>
  /\ out = <<>>
  /\ ret = <<>>
  /\ frames = 0
  /\ resizes = 0
  /\ trace = <<>>

\* ------------------------------------------------------------ main: setup

\* glfwInit, the window hints and glfwCreateWindow(SCR_WIDTH, SCR_HEIGHT,
\* ...), which may fail.  The size is in screen coordinates; the window
\* system decides how many framebuffer pixels that is.
CreateWindow ==
  /\ pc = "create_window"
  /\ \E ok \in BOOLEAN, scale \in FbScales :
       /\ window' = IF ok THEN "win" ELSE "NULL"
       /\ fbSize' = IF ok THEN << scale * SCR_WIDTH, scale * SCR_HEIGHT >>
                          ELSE fbSize
  /\ pc' = "check_window"
  /\ trace' = trace \o << Call("glfwInit", "", 0),
                          Call("glfwWindowHint", "", 3),
                          Call("glfwWindowHint", "", 3),
                          Call("glfwWindowHint", "", 0),
                          Call("glfwCreateWindow", "", 0) >>
  /\ UNCHANGED << glLoaded, callbackSet, shouldClose, escKey, objs, bound,
                  geomVars, tex, data, img, viewport, frameVars, out, ret >>

\* if (window == NULL): diagnostic, glfwTerminate, return -1
WindowFailed ==
  /\ pc = "check_window"
  /\ window = "NULL"
  /\ out' = Append(out, "Failed to create GLFW window")
  /\ trace' = Append(trace, Call("glfwTerminate", "", 0))
  /\ ret' = << -1 >>
  /\ pc' = "done"
  /\ UNCHANGED << glfwVars, glLoaded, objs, bound, geomVars, tex, data, img,
                  viewport, frameVars >>

\* Registration that runs the callback at once, before the loader.
MakeCurrent_CallbackAtOnce ==
  /\ pc = "check_window"
  /\ window = "win"
  /\ callbackSet' = TRUE
  /\ viewport' = <<0, 0, fbSize[1], fbSize[2]>>
  /\ trace' = trace \o << Call("glfwMakeContextCurrent", "", 0),
                          Call("glfwSetFramebufferSizeCallback", "", 0),
                          CallbackCall(SCR_WIDTH, SCR_HEIGHT),
                          ViewportCall(SCR_WIDTH, SCR_HEIGHT) >>
  /\ pc' = "load_gl"
  /\ UNCHANGED << window, fbSize, shouldClose, escKey, glLoaded, objs, bound,
                  geomVars, tex, data, img, frameVars, out, ret >>

\* glfwMakeContextCurrent and glfwSetFramebufferSizeCallback.  A context's
\* viewport starts as the size, in pixels, of the framebuffer of the window
\* it is first made current to.
MakeCurrent ==
  /\ pc = "check_window"
  /\ window = "win"
  /\ callbackSet' = TRUE
  /\ viewport' = <<0, 0, fbSize[1], fbSize[2]>>
  /\ trace' = trace \o << Call("glfwMakeContextCurrent", "", 0),
                          Call("glfwSetFramebufferSizeCallback", "", 0) >>
  /\ pc' = "load_gl"
  /\ UNCHANGED << window, fbSize, shouldClose, escKey, glLoaded, objs, bound,
                  geomVars, tex, data, img, frameVars, out, ret >>

\* gladLoadGLLoader((GLADloadproc)glfwGetProcAddress), which may fail.
LoadGL ==
  /\ pc = "load_gl"
  /\ \E ok \in BOOLEAN :
       glLoaded' = ok
  /\ pc' = "check_loader"
  /\ trace' = Append(trace, Call("gladLoadGLLoader", "", 0))
  /\ UNCHANGED << glfwVars, objs, bound, geomVars, tex, data, img, viewport,
                  frameVars, out, ret >>

\* LoaderFailed without its return statement: main carries on.
LoaderFailed_NoReturn ==
  /\ pc = "check_loader"
  /\ ~glLoaded
  /\ out' = Append(out, "Failed to initialize GLAD")
  /\ pc' = "gen_geometry"
  /\ UNCHANGED << glfwVars, glLoaded, objs, bound, geomVars, tex, data, img,
                  viewport, frameVars, trace, ret >>

\* LoaderFailed with the glfwTerminate call of the window-failure branch.
LoaderFailed_Terminates ==
  /\ pc = "check_loader"
  /\ ~glLoaded
  /\ out' = Append(out, "Failed to initialize GLAD")
  /\ trace' = Append(trace, Call("glfwTerminate", "", 0))
  /\ ret' = << -1 >>
  /\ pc' = "done"
  /\ UNCHANGED << glfwVars, glLoaded, objs, bound, geomVars, tex, data, img,
                  viewport, frameVars >>

\* if (!gladLoadGLLoader(...)): diagnostic, return -1
LoaderFailed ==
  /\ pc = "check_loader"
  /\ ~glLoaded
  /\ out' = Append(out, "Failed to initialize GLAD")
  /\ ret' = << -1 >>
  /\ pc' = "done"
  /\ UNCHANGED << glfwVars, glLoaded, objs, bound, geomVars, tex, data, img,
                  viewport, frameVars, trace >>

\* The loader succeeded: Shader ourShader("4.1.texturevs.txt",
\* "4.1.texturefs.txt")
BuildShader ==
  /\ pc = "check_loader"
  /\ glLoaded
  /\ trace' = Append(trace, Call("Shader", "program", 0))
  /\ pc' = "gen_geometry"
  /\ UNCHANGED << glfwVars, glLoaded, objs, bound, geomVars, tex, data, img,
                  viewport, frameVars, out, ret >>

\* glGenVertexArrays(1, &VAO); glGenBuffers(1, &VBO); glGenBuffers(1, &EBO)
GenGeometry ==
  /\ pc = "gen_geometry"
  /\ objs' = [objs EXCEPT !["VAO"] = "live", !["VBO"] = "live",
                          !["EBO"] = "live"]
  /\ trace' = trace \o << Call("glGenVertexArrays", "VAO", 1),
                          Call("glGenBuffers", "VBO", 1),
                          Call("glGenBuffers", "EBO", 1) >>
  /\ pc' = "upload_geometry"
  /\ UNCHANGED << glfwVars, glLoaded, bound, geomVars, tex, data, img,
                  viewport, frameVars, out, ret >>

\* glBindVertexArray(VAO), then bind + glBufferData for VBO and for EBO.
UploadGeometry ==
  /\ pc = "upload_geometry"
  /\ bound' = [bound EXCEPT !.vao = "VAO", !.array = "VBO",
                            !.element = "EBO"]
  /\ bufData' = [VBO |-> vertices, EBO |-> indices]
  /\ trace' = trace \o
       << Call("glBindVertexArray", "VAO", 0),
          Call("glBindBuffer", "VBO", 0),
          Call("glBufferData", "VBO", Len(vertices) * SizeofFloat),
          Call("glBindBuffer", "EBO", 0),
          Call("glBufferData", "EBO", Len(indices) * SizeofUInt) >>
  /\ pc' = "configure_attribs"
  /\ UNCHANGED << glfwVars, glLoaded, objs, attribs, tex, data, img, viewport,
                  frameVars, out, ret >>

\* The three glVertexAttribPointer / glEnableVertexAttribArray pairs.
ConfigureAttribs ==
  /\ pc = "configure_attribs"
  /\ attribs' = [i \in 0..2 |-> CASE i = 0 -> PositionAttrib
                                  [] i = 1 -> ColorAttrib
                                  [] i = 2 -> TexCoordAttrib]
  /\ trace' = trace \o
       << Call("glVertexAttribPointer", "", 0),
          Call("glEnableVertexAttribArray", "", 0),
          Call("glVertexAttribPointer", "", 1),
          Call("glEnableVertexAttribArray", "", 1),
          Call("glVertexAttribPointer", "", 2),
          Call("glEnableVertexAttribArray", "", 2) >>
  /\ pc' = "gen_texture"
  /\ UNCHANGED << glfwVars, glLoaded, objs, bound, bufData, tex, data, img,
                  viewport, frameVars, out, ret >>

\* ---------------------------------------------------- main: texture setup

\* The texture generated but not bound before it is configured.
GenTexture_NoBind ==
  /\ pc = "gen_texture"
  /\ objs' = [objs EXCEPT !["texture"] = "live"]
  /\ trace' = Append(trace, Call("glGenTextures", "texture", 1))
  /\ pc' = "tex_params"
  /\ UNCHANGED << glfwVars, glLoaded, bound, geomVars, tex, data, img,
                  viewport, frameVars, out, ret >>

\* glGenTextures(1, &texture); glBindTexture(GL_TEXTURE_2D, texture)
GenTexture ==
  /\ pc = "gen_texture"
  /\ objs' = [objs EXCEPT !["texture"] = "live"]
  /\ bound' = [bound EXCEPT !.tex2d = "texture"]
  /\ trace' = trace \o << Call("glGenTextures", "texture", 1),
                          Call("glBindTexture", "texture", 0) >>
  /\ pc' = "tex_params"
  /\ UNCHANGED << glfwVars, glLoaded, geomVars, tex, data, img, viewport,
                  frameVars, out, ret >>

\* The four glTexParameteri calls; they act on the texture bound to
\* GL_TEXTURE_2D.
SetTexParams ==
  /\ pc = "tex_params"
  /\ tex' = IF bound.tex2d = "texture"
              THEN [tex EXCEPT !.wrapS = "GL_REPEAT", !.wrapT = "GL_REPEAT",
                               !.minFilter = "GL_LINEAR",
                               !.magFilter = "GL_LINEAR"]
              ELSE tex
  /\ trace' = trace \o << Call("glTexParameteri", "GL_TEXTURE_WRAP_S", 0),
                          Call("glTexParameteri", "GL_TEXTURE_WRAP_T", 0),
                          Call("glTexParameteri", "GL_TEXTURE_MIN_FILTER", 0),
                          Call("glTexParameteri", "GL_TEXTURE_MAG_FILTER", 0) >>
  /\ pc' = "load_image"
  /\ UNCHANGED << glfwVars, glLoaded, objs, bound, geomVars, data, img,
                  viewport, frameVars, out, ret >>

\* data = stbi_load("container.jpg", ...): a buffer, or NULL on failure.
LoadImage ==
  /\ pc = "load_image"
  /\ \/ data' = "null" /\ img' = img
     \/ \E i \in ImageShapes : data' = "valid" /\ img' = i
  /\ pc' = "check_data"
  /\ trace' = Append(trace, Call("stbi_load", "data", 0))
  /\ UNCHANGED << glfwVars, glLoaded, objs, bound, geomVars, tex, viewport,
                  frameVars, out, ret >>

\* The upload without the if (data) test.
UploadTexture_Unguarded ==
  /\ pc = "check_data"
  /\ tex' = [tex EXCEPT !.image = TRUE, !.mipmaps = TRUE]
  /\ trace' = trace \o << Call("glTexImage2D", "data", 0),
                          Call("glGenerateMipmap", "", 0) >>
  /\ pc' = "free_image"
  /\ UNCHANGED << glfwVars, glLoaded, objs, bound, geomVars, data, img,
                  viewport, frameVars, out, ret >>

\* if (data): glTexImage2D reads the buffer, then glGenerateMipmap; both
\* act on the texture bound to GL_TEXTURE_2D.  glTexImage2D reads rows of
\* three bytes per pixel padded to the unpack alignment, whatever the
\* decoder returned: a read past the end of the buffer is undefined, and
\* either goes unnoticed or kills the process inside the call.
UploadTexture ==
  /\ pc = "check_data"
  /\ data = "valid"
  /\ \/ /\ tex' = IF bound.tex2d = "texture"
                    THEN [tex EXCEPT !.image = TRUE, !.mipmaps = TRUE]
                    ELSE tex
        /\ trace' = trace \o << Call("glTexImage2D", "data", 0),
                                Call("glGenerateMipmap", "", 0) >>
        /\ pc' = "free_image"
     \/ /\ ReadsPastBuffer(img)
        /\ tex' = tex
        /\ trace' = Append(trace, Call("glTexImage2D", "data", 0))
        /\ pc' = "killed"
  /\ UNCHANGED << glfwVars, glLoaded, objs, bound, geomVars, data, img,
                  viewport, frameVars, out, ret >>

\* A decode failure handled like the two fatal failures: return -1.
DecodeFailed_Fatal ==
  /\ pc = "check_data"
  /\ data = "null"
  /\ out' = Append(out, "Failed to load texture")
  /\ ret' = << -1 >>
  /\ pc' = "done"
  /\ UNCHANGED << glfwVars, glLoaded, objs, bound, geomVars, tex, data, img,
                  viewport, frameVars, trace >>

\* else: only the diagnostic
DecodeFailed ==
  /\ pc = "check_data"
  /\ data = "null"
  /\ out' = Append(out, "Failed to load texture")
  /\ pc' = "free_image"
  /\ UNCHANGED << glfwVars, glLoaded, objs, bound, geomVars, tex, data, img,
                  viewport, frameVars, ret, trace >>

\* The release guarded by if (data): not called on a failed decode.
FreeImage_OnlyIfDecoded ==
  /\ pc = "free_image"
  /\ data' = IF data = "valid" THEN "freed" ELSE data
  /\ trace' = IF data = "valid"
                THEN Append(trace, Call("stbi_image_free", "data", 0))
                ELSE trace
  /\ pc' = "loop_cond"
  /\ UNCHANGED << glfwVars, glLoaded, objs, bound, geomVars, tex, img,
                  viewport, frameVars, out, ret >>

\* stbi_image_free(data): free(), a no-op on a null pointer
FreeImage ==
  /\ pc = "free_image"
  /\ data' = IF data = "valid" THEN "freed" ELSE data
  /\ trace' = Append(trace, Call("stbi_image_free", "data", 0))
  /\ pc' = "loop_cond"
  /\ UNCHANGED << glfwVars, glLoaded, objs, bound, geomVars, tex, img,
                  viewport, frameVars, out, ret >>

\* ------------------------------------------------------ main: render loop

\* while (!glfwWindowShouldClose(window)): the flag is unset, enter the body
LoopEnter ==
  /\ pc = "loop_cond"
  /\ ~shouldClose
  /\ frames < MaxFrames
  /\ frames' = frames + 1
  /\ trace' = Append(trace, Call("glfwWindowShouldClose", "", 0))
  /\ pc' = "process_input"
  /\ UNCHANGED << glfwVars, glLoaded, objs, bound, geomVars, tex, data, img,
                  viewport, clock, uniformTime, drawn, resizes, out, ret >>

\* while (!glfwWindowShouldClose(window)): the flag is set, leave the loop
LoopExit ==
  /\ pc = "loop_cond"
  /\ shouldClose
  /\ trace' = Append(trace, Call("glfwWindowShouldClose", "", 1))
  /\ pc' = "delete_geometry"
  /\ UNCHANGED << glfwVars, glLoaded, objs, bound, geomVars, tex, data, img,
                  viewport, frameVars, out, ret >>

\* processInput that requests the close whatever the key state is.
processInput_Unconditional ==
  /\ pc = "process_input"
  /\ shouldClose' = TRUE
  /\ trace' = trace \o << Call("processInput", "", 0),
                          Call("glfwGetKey", "", 0),
                          Call("glfwSetWindowShouldClose", "", 1) >>
  /\ pc' = "clear"
  /\ UNCHANGED << window, fbSize, callbackSet, escKey, glLoaded, objs, bound,
                  geomVars, tex, data, img, viewport, frameVars, out, ret >>

\* The loop left as soon as Escape is seen, without rendering the frame.
processInput_BreaksOut ==
  /\ pc = "process_input"
  /\ shouldClose' = IF escKey THEN TRUE ELSE shouldClose
  /\ trace' = trace \o
       (<< Call("processInput", "", 0), Call("glfwGetKey", "", 0) >> \o
        IF escKey THEN << Call("glfwSetWindowShouldClose", "", 1) >>
                  ELSE << >>)
  /\ pc' = IF escKey THEN "loop_cond" ELSE "clear"
  /\ UNCHANGED << window, fbSize, callbackSet, escKey, glLoaded, objs, bound,
                  geomVars, tex, data, img, viewport, frameVars, out, ret >>

\* processInput(window): Escape pressed sets the should-close flag
processInput ==
  /\ pc = "process_input"
  /\ shouldClose' = IF escKey THEN TRUE ELSE shouldClose
  /\ trace' = trace \o
       (<< Call("processInput", "", 0), Call("glfwGetKey", "", 0) >> \o
        IF escKey THEN << Call("glfwSetWindowShouldClose", "", 1) >>
                  ELSE << >>)
  /\ pc' = "clear"
  /\ UNCHANGED << window, fbSize, callbackSet, escKey, glLoaded, objs, bound,
                  geomVars, tex, data, img, viewport, frameVars, out, ret >>

\* Clear placed after the texture bind: the iteration binds, then clears.
Clear_AfterBind ==
  /\ pc = "clear"
  /\ bound' = [bound EXCEPT !.tex2d = "texture"]
  /\ trace' = trace \o << Call("glBindTexture", "texture", 0),
                          Call("glClearColor", "", 0),
                          Call("glClear", "", 0) >>
  /\ pc' = "use_shader"
  /\ UNCHANGED << glfwVars, glLoaded, objs, geomVars, tex, data, img,
                  viewport, frameVars, out, ret >>

\* glClearColor(0.2f, 0.3f, 0.3f, 1.0f); glClear(GL_COLOR_BUFFER_BIT)
Clear ==
  /\ pc = "clear"
  /\ trace' = trace \o << Call("glClearColor", "", 0),
                          Call("glClear", "", 0) >>
  /\ pc' = "bind_texture"
  /\ UNCHANGED << glfwVars, glLoaded, objs, bound, geomVars, tex, data, img,
                  viewport, frameVars, out, ret >>

\* glBindTexture(GL_TEXTURE_2D, texture)
BindTexture ==
  /\ pc = "bind_texture"
  /\ bound' = [bound EXCEPT !.tex2d = "texture"]
  /\ trace' = Append(trace, Call("glBindTexture", "texture", 0))
  /\ pc' = "use_shader"
  /\ UNCHANGED << glfwVars, glLoaded, objs, geomVars, tex, data, img,
                  viewport, frameVars, out, ret >>

\* The conversion of glfwGetTime's double to the GLfloat parameter of
\* glUniform1f: round to nearest, ties to even.  The clock counts in ticks
\* of the double; the float keeps one bit less, so it holds even ticks only.
ToFloat(t) ==
  IF t % 2 = 0 THEN t
  ELSE IF (t \div 2) % 2 = 0 THEN 2 * (t \div 2)
       ELSE 2 * (t \div 2 + 1)

\* The uniform written before the program it belongs to is bound.
UseShader_UniformFirst ==
  /\ pc = "use_shader"
  /\ bound' = [bound EXCEPT !.program = "program"]
  /\ \E dt \in 0..1 :
       /\ clock' = clock + dt
       /\ uniformTime' = Append(uniformTime, ToFloat(clock + dt))
       /\ trace' = trace \o << Call("glGetUniformLocation", "time", 0),
                               Call("glfwGetTime", "", clock + dt),
                               Call("glUniform1f", "time",
                                    ToFloat(clock + dt)),
                               Call("glUseProgram", "program", 0) >>
  /\ pc' = "draw"
  /\ UNCHANGED << glfwVars, glLoaded, objs, geomVars, tex, data, img,
                  viewport, drawn, frames, resizes, out, ret >>

\* ourShader.use(); glGetUniformLocation; glUniform1f(.., glfwGetTime()).
\* The clock read is at or after the previous one.
UseShader ==
  /\ pc = "use_shader"
  /\ bound' = [bound EXCEPT !.program = "program"]
  /\ \E dt \in 0..1 :
       /\ clock' = clock + dt
       /\ uniformTime' = Append(uniformTime, ToFloat(clock + dt))
       /\ trace' = trace \o << Call("glUseProgram", "program", 0),
                               Call("glGetUniformLocation", "time", 0),
                               Call("glfwGetTime", "", clock + dt),
                               Call("glUniform1f", "time",
                                    ToFloat(clock + dt)) >>
  /\ pc' = "draw"
  /\ UNCHANGED << glfwVars, glLoaded, objs, geomVars, tex, data, img,
                  viewport, drawn, frames, resizes, out, ret >>

\* glBindVertexArray(VAO); glDrawElements(GL_TRIANGLES, 6, GL_UNSIGNED_INT, 0)
\* reads the first 6 indices of the element buffer of the bound vertex array.
Draw ==
  /\ pc = "draw"
  /\ bound' = [bound EXCEPT !.vao = "VAO"]
  /\ drawn' = SubSeq(bufData.EBO, 1, DrawCount)
  /\ trace' = trace \o << Call("glBindVertexArray", "VAO", 0),
                          Call("glDrawElements", "VAO", DrawCount) >>
  /\ pc' = "swap_buffers"
  /\ UNCHANGED << glfwVars, glLoaded, objs, geomVars, tex, data, img,
                  viewport, clock, uniformTime, frames, resizes, out, ret >>

\* glfwSwapBuffers(window)
SwapBuffers ==
  /\ pc = "swap_buffers"
  /\ trace' = Append(trace, Call("glfwSwapBuffers", "", 0))
  /\ pc' = "poll_events"
  /\ UNCHANGED << glfwVars, glLoaded, objs, bound, geomVars, tex, data, img,
                  viewport, frameVars, out, ret >>

\* The callback passing its arguments to glViewport in the wrong order.
framebuffer_size_callback_Swapped(width, height) ==
  <<0, 0, height, width>>

\* framebuffer_size_callback(window, width, height): the new viewport
framebuffer_size_callback(width, height) == <<0, 0, width, height>>

\* The trace of the dispatch of the resize events evs, in order: each
\* invocation of the callback and the glViewport call it makes.
RECURSIVE DispatchTrace(_)
DispatchTrace(evs) ==
  IF evs = <<>> THEN <<>>
  ELSE LET vp == framebuffer_size_callback(Head(evs)[1], Head(evs)[2])
       IN  << CallbackCall(Head(evs)[1], Head(evs)[2]),
              ViewportCall(vp[3], vp[4]) >> \o DispatchTrace(Tail(evs))

\* Sequences of at most n framebuffer sizes.
RECURSIVE ResizeSeqs(_)
ResizeSeqs(n) ==
  IF n = 0 THEN { <<>> }
  ELSE ResizeSeqs(n - 1) \cup
       { Append(s, d) : s \in { t \in ResizeSeqs(n - 1) : Len(t) = n - 1 },
                        d \in ResizeDims }

\* glfwPollEvents(): the window system updates the cached key state, may set
\* the should-close flag (close request) and dispatches the pending
\* framebuffer-resize events to the registered callback, in order; the
\* framebuffer has the size of the last event.  The
\* run sees at most MaxResizes resize events in all.
PollEvents ==
  /\ pc = "poll_events"
  /\ \E key \in BOOLEAN, close \in BOOLEAN,
        evs \in ResizeSeqs(MaxResizes - resizes) :
       /\ escKey' = key
       /\ resizes' = resizes + Len(evs)
       /\ fbSize' = IF evs # <<>> THEN evs[Len(evs)] ELSE fbSize
       /\ shouldClose' = (shouldClose \/ close)
       /\ viewport' = IF callbackSet /\ evs # <<>>
                        THEN framebuffer_size_callback(evs[Len(evs)][1],
                                                       evs[Len(evs)][2])
                        ELSE viewport
       /\ trace' = trace \o << Call("glfwPollEvents", "", 0) >> \o
                   IF callbackSet THEN DispatchTrace(evs) ELSE << >>
  /\ pc' = "loop_cond"
  /\ UNCHANGED << window, callbackSet, glLoaded, objs, bound, geomVars, tex,
                  data, img, clock, uniformTime, drawn, frames, out, ret >>

\* --------------------------------------------------------- main: shutdown

\* The shutdown that also deletes the texture object.
DeleteGeometry_AndTexture ==
  /\ pc = "delete_geometry"
  /\ objs' = [o \in DOMAIN objs |-> "deleted"]
  /\ bound' = [bound EXCEPT !.vao = "", !.array = "", !.element = "",
                            !.tex2d = ""]
  /\ trace' = trace \o << Call("glDeleteVertexArrays", "VAO", 1),
                          Call("glDeleteBuffers", "VBO", 1),
                          Call("glDeleteBuffers", "EBO", 1),
                          Call("glDeleteTextures", "texture", 1) >>
  /\ pc' = "terminate"
  /\ UNCHANGED << glfwVars, glLoaded, geomVars, tex, data, img, viewport,
                  frameVars, out, ret >>

\* glDeleteVertexArrays(1, &VAO); glDeleteBuffers(1, &VBO);
\* glDeleteBuffers(1, &EBO)
DeleteGeometry ==
  /\ pc = "delete_geometry"
  /\ objs' = [objs EXCEPT !["VAO"] = "deleted", !["VBO"] = "deleted",
                          !["EBO"] = "deleted"]
  /\ bound' = [bound EXCEPT !.vao = "", !.array = "", !.element = ""]
  /\ trace' = trace \o << Call("glDeleteVertexArrays", "VAO", 1),
                          Call("glDeleteBuffers", "VBO", 1),
                          Call("glDeleteBuffers", "EBO", 1) >>
  /\ pc' = "terminate"
  /\ UNCHANGED << glfwVars, glLoaded, geomVars, tex, data, img, viewport,
                  frameVars, out, ret >>

\* glfwTerminate(); return 0
Terminate ==
  /\ pc = "terminate"
  /\ trace' = Append(trace, Call("glfwTerminate", "", 0))
  /\ ret' = << 0 >>
  /\ pc' = "done"
  /\ UNCHANGED << glfwVars, glLoaded, objs, bound, geomVars, tex, data, img,
                  viewport, frameVars, out >>

Next ==
  \/ CreateWindow \/ WindowFailed \/ MakeCurrent \/ LoadGL \/ LoaderFailed
  \/ BuildShader \/ GenGeometry \/ UploadGeometry \/ ConfigureAttribs
  \/ GenTexture \/ SetTexParams \/ LoadImage \/ UploadTexture
  \/ DecodeFailed \/ FreeImage
  \/ LoopEnter \/ LoopExit \/ processInput \/ Clear \/ BindTexture
  \/ UseShader \/ Draw \/ SwapBuffers \/ PollEvents
  \/ DeleteGeometry \/ Terminate

Spec == Init /\ [][Next]_vars

\* main runs on one thread that is never suspended for ever: every step of
\* main that is enabled is eventually taken.
FairSpec == Spec /\ WF_vars(Next)

\* ------------------------------------------------- reading the call trace

\* Largest element of a non-empty set of numbers.
Max(S) == CHOOSE x \in S : \A y \in S : y <= x

\* Positions in the trace of the calls named op.
Pos(op) == { i \in 1..Len(trace) : trace[i].op = op }

\* Number of calls named op issued so far.
Count(op) == Cardinality(Pos(op))

\* Positions of the calls named op on the object obj.
PosOn(op, obj) == { i \in Pos(op) : trace[i].obj = obj }

\* Every position of A comes before every position of B.
AllBefore(A, B) == \A i \in A, j \in B : i < j

\* Evaluations of the loop condition, and those that entered the body.
LoopChecks == Pos("glfwWindowShouldClose")
IterStarts == { i \in LoopChecks : trace[i].n = 0 }

\* The calls of the iteration that starts at loop check i, given the set
\* of loop checks: up to the next loop check, or to the end of the trace
\* while the iteration is running.
IterEnd(checks, i) ==
  LET later == { j \in checks : j > i }
  IN  IF later = {} THEN Len(trace)
      ELSE (CHOOSE j \in later : \A k \in later : j <= k) - 1
IterCalls(checks, i) == SubSeq(trace, i + 1, IterEnd(checks, i))
IterComplete(checks, i) == \E j \in checks : j > i

\* The calls made by the GL driver entry points that set up or draw.
IsGLCall(c) == c.op \in
  { "Shader", "glGenVertexArrays", "glGenBuffers", "glBindVertexArray",
    "glBindBuffer", "glBufferData", "glVertexAttribPointer",
    "glEnableVertexAttribArray", "glGenTextures", "glBindTexture",
    "glTexParameteri", "glTexImage2D", "glGenerateMipmap", "glClearColor",
    "glClear", "glUseProgram", "glGetUniformLocation", "glUniform1f",
    "glDrawElements", "glViewport", "glDeleteVertexArrays",
    "glDeleteBuffers" }

WindowCreationFailed == window = "NULL"
LoaderResolutionFailed ==
  /\ window = "win" /\ ~glLoaded
  /\ pc \notin {"create_window", "check_window", "load_gl"}

\* ------------------------------------------------------------------ C1

\* The process has ended: main returned, or the process was killed.
ProcessEnded == pc \in {"done", "killed"}

\* C1: the process ends with status -1 exactly when glfwCreateWindow or
\* gladLoadGLLoader failed and with status 0 otherwise; on a failure the
\* diagnostic is printed and main returns at once: no geometry setup, no
\* texture setup, no loop iteration and no other call follows the failed
\* step (glfwTerminate excepted).
C1_ExitStatus ==
  /\ (ret # <<>>) => ProcessEnded
  /\ ProcessEnded =>
       ret = IF WindowCreationFailed \/ LoaderResolutionFailed
               THEN << -1 >> ELSE << 0 >>
  /\ (pc = "done" /\ WindowCreationFailed) =>
       /\ out = << "Failed to create GLFW window" >>
       /\ trace[Len(trace) - 1].op = "glfwCreateWindow"
       /\ trace[Len(trace)].op = "glfwTerminate"
  /\ (pc = "done" /\ LoaderResolutionFailed) =>
       /\ out = << "Failed to initialize GLAD" >>
       /\ trace[Len(trace)].op = "gladLoadGLLoader"
  /\ (WindowCreationFailed \/ LoaderResolutionFailed) =>
       /\ \A i \in 1..Len(trace) : ~IsGLCall(trace[i])
       /\ Count("stbi_load") = 0
       /\ frames = 0 /\ LoopChecks = {}
       /\ \A o \in DOMAIN objs : objs[o] = "none"

C1_Witness_LoaderFailure ==
  pc = "done" /\ window = "win" /\ LoaderResolutionFailed /\ ret = << -1 >>

\* ------------------------------------------------------------------ C2

\* The steps of one iteration of the render loop, in source order.
FrameSteps ==
  << "processInput", "glClear", "glBindTexture", "glUseProgram",
     "glBindVertexArray", "glDrawElements", "glfwSwapBuffers",
     "glfwPollEvents" >>

IsFrameStep(c) == c.op \in { FrameSteps[k] : k \in 1..Len(FrameSteps) }

\* The named steps among the calls of one iteration.
IterSteps(calls) ==
  LET sel == SelectSeq(calls, IsFrameStep)
  IN  [k \in 1..Len(sel) |-> sel[k].op]

\* C2: every iteration of the render loop performs input check, clear, bind
\* texture, bind program, bind vertex array, one indexed draw of 6 indices,
\* buffer swap and event poll, each once and in this order; a running
\* iteration has done a prefix of them.
C2_FrameOrder ==
  LET checks == LoopChecks
  IN  \A i \in checks : trace[i].n = 0 =>
        LET calls == IterCalls(checks, i)
            steps == IterSteps(calls)
        IN  /\ Len(steps) <= Len(FrameSteps)
            /\ steps = SubSeq(FrameSteps, 1, Len(steps))
            /\ (IterComplete(checks, i) \/ pc = "loop_cond") =>
                 steps = FrameSteps
            /\ \A k \in 1..Len(calls) :
                 calls[k].op = "glDrawElements" => calls[k].n = 6

C2_Witness_TwoFrames ==
  /\ pc = "loop_cond"
  /\ Cardinality(IterStarts) >= 2
  /\ \A i \in IterStarts :
       IterSteps(IterCalls(LoopChecks, i)) = FrameSteps

\* ------------------------------------------------------------------ C3

\* C3: the loop is left only with the should-close flag set; outside the
\* event poll the flag is set only by processInput, and only when it sees
\* Escape pressed; the flag is never cleared; with the flag set the next
\* evaluation of the loop condition leaves the loop, and main then reaches
\* the shutdown and returns 0.
C3_LoopTermination ==
  /\ [][(pc = "loop_cond" /\ pc' # "loop_cond") =>
          (pc' = "delete_geometry" <=> shouldClose)]_vars
  /\ [][(~shouldClose /\ shouldClose' /\ pc # "poll_events") =>
          (pc = "process_input" /\ escKey)]_vars
  /\ [][shouldClose => shouldClose']_vars
  /\ [](pc \in {"delete_geometry", "terminate"} => shouldClose)
  /\ (shouldClose ~> (pc = "done" /\ ret = << 0 >>))

C3_Witness_EscapeExit ==
  /\ pc = "done" /\ ret = << 0 >>
  /\ Count("glfwSetWindowShouldClose") >= 1
  /\ frames >= 2

\* ------------------------------------------------------------------ C4

\* C4: when stbi_load returned NULL the program goes on (no crash), neither
\* glTexImage2D nor glGenerateMipmap is ever called, the texture keeps no
\* image, and the only output of the decode check is the diagnostic.
C4_DecodeFailureSkipsUpload ==
  data = "null" =>
    /\ Count("glTexImage2D") = 0
    /\ Count("glGenerateMipmap") = 0
    /\ ~tex.image /\ ~tex.mipmaps
    /\ pc # "check_data" => out = << "Failed to load texture" >>
    /\ pc \notin {"check_data", "free_image"} =>
         trace[Max(Pos("stbi_load")) + 1].op = "stbi_image_free"
    /\ pc = "done" => ret = << 0 >>

C4_Witness_DecodeFailedRun ==
  data = "null" /\ pc = "done" /\ Count("glDrawElements") >= 1

\* ------------------------------------------------------------------ C5

\* C5: a decode failure is not fatal: the diagnostic is printed, main does
\* not return at the failure, the render loop is entered, every iteration
\* binds the texture object (which has no image) and issues the draw call,
\* and main returns 0 once the exit is requested.
C5_DecodeFailureNonFatal ==
  (data = "null" /\ pc # "check_data") =>
    /\ "Failed to load texture" \in { out[k] : k \in 1..Len(out) }
    /\ ret # << -1 >>
    /\ ret = <<>> <=> pc # "done"
    /\ pc \notin {"loop_cond", "free_image"} => frames >= 1
    /\ objs["texture"] = "live" /\ ~tex.image
    /\ LET checks == LoopChecks
       IN  \A i \in checks :
             (trace[i].n = 0 /\ IterComplete(checks, i)) =>
               LET calls == IterCalls(checks, i)
               IN  /\ \E k \in 1..Len(calls) :
                        /\ calls[k].op = "glBindTexture"
                        /\ calls[k].obj = "texture"
                   /\ \E k \in 1..Len(calls) :
                        calls[k].op = "glDrawElements"
    /\ pc = "done" => (ret = << 0 >> /\ shouldClose)

C5_Witness_DrawsWithoutImage ==
  /\ data = "null" /\ pc = "done" /\ ret = << 0 >>
  /\ Count("glDrawElements") >= 2 /\ ~tex.image

\* ------------------------------------------------------------------ C6

\* main is past the stbi_image_free statement.
PastFree == pc \notin {"create_window", "check_window", "check_loader",
                       "gen_geometry", "upload_geometry",
                       "configure_attribs", "gen_texture", "tex_params",
                       "load_image", "check_data", "free_image"}
            /\ data # "unset"

\* C6: every run that reaches the texture setup releases the decoded buffer
\* exactly once, whether the decode succeeded or returned NULL; the release
\* comes after the upload (if any) and before the first loop iteration, and
\* nothing reads the buffer after the release.
C6_BufferReleasedOnce ==
  LET frees == Pos("stbi_image_free")
      loads == Pos("stbi_load")
      reads == PosOn("glTexImage2D", "data")
  IN  /\ data = "unset" => frees = {}
      /\ Cardinality(frees) <= 1
      /\ PastFree =>
           /\ Cardinality(frees) = 1
           /\ data \in {"freed", "null"}
      /\ data = "freed" => Cardinality(reads) = 1
      /\ data = "null" => reads = {}
      /\ AllBefore(loads, frees)
      /\ AllBefore(reads, frees)
      /\ AllBefore(Pos("glGenerateMipmap"), frees)
      /\ AllBefore(frees, LoopChecks)
      /\ \A i \in reads : \E j \in loads : j < i

C6_Witness_FreeOfNull ==
  data = "null" /\ frames >= 1 /\ Count("stbi_image_free") = 1

\* ------------------------------------------------------------------ C7

\* C7: the texture is generated and bound first, then the S and T wrap modes
\* and the minification and magnification filters are set on it, and only
\* then is the image uploaded; glGenerateMipmap is called only after
\* glTexImage2D and only when glTexImage2D was called.
C7_ConfigureBeforeUpload ==
  /\ LET gens == Pos("glGenTextures")
         binds == PosOn("glBindTexture", "texture")
         params == Pos("glTexParameteri")
         uploads == Pos("glTexImage2D")
         mipmaps == Pos("glGenerateMipmap")
     IN  /\ AllBefore(gens, binds)
         /\ AllBefore(gens, params)
         /\ \A j \in params : \E i \in binds : i < j
         /\ AllBefore(params, uploads)
         /\ AllBefore(uploads, mipmaps)
         /\ Cardinality(mipmaps) <= Cardinality(uploads)
         /\ uploads # {} =>
              { trace[j].obj : j \in params } =
                { "GL_TEXTURE_WRAP_S", "GL_TEXTURE_WRAP_T",
                  "GL_TEXTURE_MIN_FILTER", "GL_TEXTURE_MAG_FILTER" }
  /\ tex.image =>
       /\ tex.wrapS = "GL_REPEAT" /\ tex.wrapT = "GL_REPEAT"
       /\ tex.minFilter = "GL_LINEAR" /\ tex.magFilter = "GL_LINEAR"
  /\ tex.mipmaps => tex.image

C7_Witness_Uploaded ==
  tex.image /\ tex.mipmaps /\ Count("glTexParameteri") = 4
  /\ pc = "free_image"

\* ------------------------------------------------------------------ C8

\* Calls that create, fill or destroy a GPU object.
IsLifecycleCall(c) == c.op \in
  { "glGenVertexArrays", "glGenBuffers", "glGenTextures", "glBufferData",
    "glTexImage2D", "glGenerateMipmap", "glTexParameteri",
    "glVertexAttribPointer", "glDeleteVertexArrays", "glDeleteBuffers",
    "glDeleteTextures" }

\* Calls that use a GPU object.
IsUseCall(c) == c.op \in
  { "glBindVertexArray", "glBindBuffer", "glBindTexture", "glDrawElements" }

\* C8: the vertex array, vertex buffer, index buffer and texture are each
\* created exactly once, before the first loop iteration; the loop only
\* binds and draws them; the three geometry objects are deleted exactly
\* once, after the loop was left and after their last use; the texture is
\* never deleted.
C8_ResourceLifecycle ==
  /\ LET checks == LoopChecks
         exits == { j \in checks : trace[j].n = 1 }
         Gens(o) == { i \in 1..Len(trace) :
                       /\ trace[i].obj = o
                       /\ trace[i].op \in {"glGenVertexArrays",
                                            "glGenBuffers",
                                            "glGenTextures"} }
         Dels(o) == { i \in 1..Len(trace) :
                       /\ trace[i].obj = o
                       /\ trace[i].op \in {"glDeleteVertexArrays",
                                            "glDeleteBuffers",
                                            "glDeleteTextures"} }
         uses == { i \in 1..Len(trace) : IsUseCall(trace[i]) }
     IN  /\ \A o \in DOMAIN objs :
              LET gens == Gens(o)
                  dels == Dels(o)
              IN  /\ Cardinality(gens) <= 1
                  /\ Cardinality(dels) <= 1
                  /\ checks # {} => Cardinality(gens) = 1
                  /\ AllBefore(gens, checks)
                  /\ \A d \in dels : \E j \in exits : j < d
                  /\ AllBefore(uses, dels)
                  /\ pc = "done" /\ ret = << 0 >> =>
                       Cardinality(dels) = IF o = "texture" THEN 0 ELSE 1
         /\ Dels("texture") = {}
         /\ \A i \in 1..Len(trace) :
              (IsLifecycleCall(trace[i]) /\ checks # {}) =>
                \/ AllBefore({i}, checks)
                \/ trace[i].op \in {"glDeleteVertexArrays",
                                     "glDeleteBuffers"}
                     /\ \E j \in exits : j < i
  /\ frames >= 1 /\ pc \notin {"terminate", "done"} =>
       \A o \in DOMAIN objs : objs[o] = "live"
  /\ (pc = "done" /\ ret = << 0 >>) =>
       /\ objs["VAO"] = "deleted" /\ objs["VBO"] = "deleted"
       /\ objs["EBO"] = "deleted"
  /\ pc \notin {"terminate", "done"} =>
       \A o \in {"VAO", "VBO", "EBO"} : objs[o] # "deleted"
  /\ objs["texture"] # "deleted"

C8_Witness_ShutDown ==
  /\ pc = "done" /\ ret = << 0 >> /\ frames >= 2
  /\ objs["texture"] = "live" /\ objs["VAO"] = "deleted"

\* ------------------------------------------------------------------ C9

\* First and last byte of the vertex buffer that attribute a reads for
\* vertex v, and the set of all the bytes it reads.
FirstByte(a, v) == v * a.stride + a.offset
LastByte(a, v) == FirstByte(a, v) + a.size * SizeofFloat - 1
AttribBytes(a, v) == FirstByte(a, v)..LastByte(a, v)

\* Size in bytes of the data store of the vertex buffer.
VBOBytes == Len(bufData.VBO) * SizeofFloat

\* C9: with 4-byte floats attribute 0 reads bytes 0-11, attribute 1 bytes
\* 12-23 and attribute 2 bytes 24-31 of a vertex, all with stride 32; the
\* three ranges are pairwise disjoint and cover the stride, and for each of
\* the 4 vertices every attribute stays inside the 128 uploaded bytes.
C9_VertexLayout ==
  (\A i \in 0..2 : attribs[i].enabled) =>
    /\ SizeofFloat = 4
    /\ AttribBytes(attribs[0], 0) = 0..11
    /\ AttribBytes(attribs[1], 0) = 12..23
    /\ AttribBytes(attribs[2], 0) = 24..31
    /\ \A i \in 0..2 : attribs[i].stride = 32
    /\ \A i, j \in 0..2 :
         i # j => AttribBytes(attribs[i], 0) \cap AttribBytes(attribs[j], 0)
                    = {}
    /\ UNION { AttribBytes(attribs[i], 0) : i \in 0..2 }
         = 0..(attribs[0].stride - 1)
    /\ VBOBytes = 128
    /\ \A v \in 0..(NumVertices - 1), i \in 0..2 :
         /\ FirstByte(attribs[i], v) >= 0
         /\ LastByte(attribs[i], v) <= VBOBytes - 1

C9_Witness_LayoutDrawn ==
  /\ pc = "swap_buffers"
  /\ \A i \in 0..2 : attribs[i].enabled
  /\ Count("glBufferData") = 2
  /\ Count("glDrawElements") >= 1

\* ----------------------------------------------------------------- C10

\* Position (x, y) that attribute 0 reads for vertex v, in units of 0.5.
VertexPos(v) ==
  LET base == (v * attribs[0].stride + attribs[0].offset) \div SizeofFloat
  IN  << bufData.VBO[base + 1], bufData.VBO[base + 2] >>

\* Twice the signed area of the triangle a, b, c.
Cross(a, b, c) ==
  (b[1] - a[1]) * (c[2] - a[2]) - (b[2] - a[2]) * (c[1] - a[1])

Abs(x) == IF x < 0 THEN -x ELSE x

\* The vertex sets of the two triangles of the last draw call.
Tri1 == { drawn[1], drawn[2], drawn[3] }
Tri2 == { drawn[4], drawn[5], drawn[6] }

\* Twice the area of the triangle whose indices are drawn[k..k+2].
TriArea2(k) ==
  Abs(Cross(VertexPos(drawn[k]), VertexPos(drawn[k + 1]),
            VertexPos(drawn[k + 2])))

\* Twice the area of the quad: the rectangle spanned by the 4 positions.
QuadArea2 ==
  LET xs == { VertexPos(v)[1] : v \in 0..(NumVertices - 1) }
      ys == { VertexPos(v)[2] : v \in 0..(NumVertices - 1) }
      Min(S) == CHOOSE x \in S : \A y \in S : x <= y
  IN  2 * (Max(xs) - Min(xs)) * (Max(ys) - Min(ys))

\* C10: the draw call consumes exactly the 6 indices of the index buffer;
\* they are in 0..3 and form two triangles of 3 distinct vertices that use
\* all 4 vertices, share exactly the edge between vertex 1 and vertex 3 and
\* have their third vertices 0 and 2 on opposite sides of it, so that they
\* cover the quad with no overlap and no gap.
C10_TwoTrianglesCoverQuad ==
  drawn # <<>> =>
    /\ Len(drawn) = 6 /\ drawn = bufData.EBO
    /\ drawn = << 0, 1, 3, 1, 2, 3 >>
    /\ \A j \in Pos("glDrawElements") : trace[j].n = 6
    /\ \A k \in 1..6 : drawn[k] \in 0..(NumVertices - 1)
    /\ Cardinality(Tri1) = 3 /\ Cardinality(Tri2) = 3
    /\ Tri1 \cup Tri2 = 0..(NumVertices - 1)
    /\ Tri1 \cap Tri2 = {1, 3}
    /\ Tri1 \ Tri2 = {0} /\ Tri2 \ Tri1 = {2}
    /\ Cross(VertexPos(1), VertexPos(3), VertexPos(0))
         * Cross(VertexPos(1), VertexPos(3), VertexPos(2)) < 0
    /\ TriArea2(1) > 0 /\ TriArea2(4) > 0
    /\ TriArea2(1) + TriArea2(4) = QuadArea2

C10_Witness_QuadDrawn ==
  /\ Len(drawn) = 6 /\ Count("glDrawElements") >= 1
  /\ Tri1 = {0, 1, 3} /\ Tri2 = {1, 2, 3}

\* ----------------------------------------------------------------- C11

\* C11: after every framebuffer-resize event (w, h), whatever events came
\* before it, the viewport is origin (0, 0) with the width and height of the
\* most recent event; every glViewport call is the one the callback makes
\* for an event, with that event's size, and without an event the viewport
\* is the one the context started with, the size of the framebuffer the
\* window was created with.
C11_ViewportFollowsResize ==
  LET cbs == Pos("framebuffer_size_callback")
      vps == Pos("glViewport")
  IN  /\ Cardinality(cbs) = resizes
      /\ vps = { i + 1 : i \in cbs }
      /\ \A i \in cbs :
           trace[i + 1].n = trace[i].n /\ trace[i + 1].m = trace[i].m
      /\ cbs # {} =>
           /\ viewport = << 0, 0, trace[Max(cbs)].n, trace[Max(cbs)].m >>
           /\ fbSize = << trace[Max(cbs)].n, trace[Max(cbs)].m >>
      /\ cbs = {} =>
           /\ viewport = IF callbackSet THEN << 0, 0, fbSize[1], fbSize[2] >>
                                        ELSE << 0, 0, 0, 0 >>
           /\ fbSize \in { << 0, 0 >> } \cup
                          { << k * SCR_WIDTH, k * SCR_HEIGHT >> :
                              k \in FbScales }

C11_Witness_TwoResizes ==
  LET cbs == Pos("framebuffer_size_callback")
  IN  /\ Cardinality(cbs) >= 2
      /\ \E i, j \in cbs : i < j /\ trace[i].n # trace[j].n
                           /\ j = Max(cbs)
      /\ viewport[3] = trace[Max(cbs)].n
      /\ viewport[3] # viewport[4]

\* ----------------------------------------------------------------- C12

\* Positions, among the calls of one iteration, of the calls named op.
PosIn(calls, op) == { k \in 1..Len(calls) : calls[k].op = op }

\* C12: every iteration writes the "time" uniform exactly once, after the
\* shader program is bound and before the draw call, with the value of the
\* clock read in that iteration; the values written in successive
\* iterations never decrease.
C12_TimeUniformOncePerFrame ==
  LET checks == LoopChecks
      starts == { i \in checks : trace[i].n = 0 }
      writes == SelectSeq(trace, LAMBDA c : c.op = "glUniform1f")
  IN  /\ \A i \in starts :
           LET calls == IterCalls(checks, i)
               sets == PosIn(calls, "glUniform1f")
               uses == PosIn(calls, "glUseProgram")
               reads == PosIn(calls, "glfwGetTime")
               draws == PosIn(calls, "glDrawElements")
           IN  /\ Cardinality(sets) <= 1
               /\ AllBefore(uses, sets)
               /\ AllBefore(sets, draws)
               /\ \A k \in sets :
                    /\ uses # {}
                    /\ k - 1 \in reads
                    /\ calls[k].n = ToFloat(calls[k - 1].n)
               /\ (draws # {} \/ IterComplete(checks, i)) =>
                    Cardinality(sets) = 1
      /\ Len(writes) = Len(uniformTime)
      /\ \A k \in 1..Len(writes) : writes[k].n = uniformTime[k]
      /\ Len(uniformTime) <= Cardinality(starts)
      /\ \A k \in 1..(Len(uniformTime) - 1) :
           uniformTime[k] <= uniformTime[k + 1]

C12_Witness_TimeAdvances ==
  /\ pc = "loop_cond"
  /\ Len(uniformTime) >= 2
  /\ uniformTime[1] < uniformTime[2]
  /\ Count("glUniform1f") = Len(uniformTime)

\* ----------------------------------------------------------------- C13

\* The steps of a frame that follow the input check.
RestOfFrame ==
  << "glClear", "glBindTexture", "glUseProgram", "glBindVertexArray",
     "glDrawElements", "glfwSwapBuffers", "glfwPollEvents" >>

\* C13: the should-close flag is tested only by the loop condition: the
\* iteration whose processInput sees Escape and sets the flag goes on to
\* clear, bind, draw, swap and poll, so exactly one more frame is presented
\* after the key press is detected; the loop condition that follows leaves
\* the loop, and no iteration starts with the flag set.
C13_FrameCompletesAfterEscape ==
  /\ pc = "process_input" => ~shouldClose
  /\ pc \in {"process_input", "clear", "bind_texture", "use_shader", "draw",
             "swap_buffers", "poll_events"} => ret = <<>>
  /\ LET sets == Pos("glfwSetWindowShouldClose")
     IN  /\ Cardinality(sets) <= 1
         /\ \A p \in sets :
              LET after == SubSeq(trace, p + 1, Len(trace))
                  steps == IterSteps(after)
                  later == SelectSeq(after,
                             LAMBDA c : c.op = "glfwWindowShouldClose")
              IN  /\ shouldClose
                  /\ trace[p - 1].op = "glfwGetKey"
                  /\ Len(steps) <= Len(RestOfFrame)
                  /\ steps = SubSeq(RestOfFrame, 1, Len(steps))
                  /\ Len(later) <= 1
                  /\ \A k \in 1..Len(later) : later[k].n = 1
                  /\ pc \in {"loop_cond", "delete_geometry", "terminate",
                             "done"} => steps = RestOfFrame
                  /\ Len(later) = 1 => steps = RestOfFrame

C13_Witness_FrameAfterEscape ==
  LET sets == Pos("glfwSetWindowShouldClose")
  IN  /\ pc = "done" /\ ret = << 0 >>
      /\ sets # {}
      /\ Cardinality({ i \in Pos("glfwSwapBuffers") : i > Max(sets) }) = 1
      /\ Cardinality({ i \in Pos("glDrawElements") : i > Max(sets) }) = 1

\* ----------------------------------------------------------------- C14

\* C14: no GL call is issued before gladLoadGLLoader has succeeded.  The
\* resize callback is registered before the loader runs, but it is only
\* dispatched by glfwPollEvents inside the frame loop, so glViewport, the
\* buffer and texture setup calls and the draw calls all come strictly
\* after a successful loader step; a failed loader means no GL call at all.
C14_NoGLBeforeLoader ==
  LET gl  == { i \in DOMAIN trace : IsGLCall(trace[i]) }
      ld  == Pos("gladLoadGLLoader")
      reg == Pos("glfwSetFramebufferSizeCallback")
      cbs == Pos("framebuffer_size_callback")
  IN  /\ Cardinality(ld) <= 1
      /\ gl # {} => glLoaded /\ ld # {} /\ \A i \in gl : i > Max(ld)
      /\ ~glLoaded => gl = {} /\ cbs = {}
      /\ \A r \in reg : \A l \in ld : r < l
      /\ ld # {} => reg # {}
      /\ \A c \in cbs :
           /\ callbackSet /\ ld # {} /\ c > Max(ld)
           /\ \/ trace[c - 1].op = "glfwPollEvents"
              \/ /\ trace[c - 1].op = "glViewport"
                 /\ trace[c - 2].op = "framebuffer_size_callback"

C14_Witness_ViewportAfterLoader ==
  /\ glLoaded
  /\ Pos("glViewport") # {}
  /\ Pos("glDrawElements") # {}
  /\ Max(Pos("glfwSetFramebufferSizeCallback")) < Max(Pos("gladLoadGLLoader"))
  /\ Max(Pos("gladLoadGLLoader")) < Max(Pos("glViewport"))

\* ----------------------------------------------------------------- C15

\* C15: glfwTerminate is called exactly once, as the last call before the
\* return, when window creation fails and on the normal exit; when the
\* loader fails main returns -1 without calling it, and the window and
\* context it created are left unreleased.
C15_TerminateOnExitPaths ==
  LET terms == Pos("glfwTerminate")
  IN  /\ Cardinality(terms) <= 1
      /\ \A t \in terms : t = Len(trace) /\ pc = "done"
      /\ pc = "done" =>
           /\ WindowCreationFailed =>
                ret = << -1 >> /\ Cardinality(terms) = 1
           /\ LoaderResolutionFailed =>
                /\ ret = << -1 >>
                /\ terms = {}
                /\ window = "win"
                /\ Count("glfwMakeContextCurrent") = 1
           /\ ret = << 0 >> => Cardinality(terms) = 1
           /\ ret = << -1 >> => WindowCreationFailed \/ LoaderResolutionFailed
           /\ ret \in { << 0 >>, << -1 >> }

C15_Witness_LoaderFailureLeak ==
  /\ pc = "done"
  /\ LoaderResolutionFailed
  /\ Count("glfwCreateWindow") = 1
  /\ Count("glfwTerminate") = 0
  /\ window = "win"

====
